---- MODULE Spec2Model ----
(***************************************************************************)
(* A model of luaot, the Lua bytecode-to-C compiler (src/src/luaot.c).     *)
(*                                                                         *)
(* One run of main() is modelled step by step: argument handling and       *)
(* get_module_name, loading the input, opening the output, the header,     *)
(* print_functions (create_functions' pre-order recursion over the Proto   *)
(* tree, create_function's loop over the instructions), the function       *)
(* table, print_source_code's fgetc loop and the footer.  When a run has   *)
(* succeeded the program may be run a second time on the same arguments    *)
(* and the same input file.                                                *)
(*                                                                         *)
(* The output file is a sequence of print items, one per print/println     *)
(* call (runs of fixed text are one item): <<fmt, s, n, x>> with fmt the   *)
(* format text, s a string argument, n an integer argument and x a list of *)
(* integers (further arguments, or the characters that were written).      *)
(* Characters and bytes are their codes.                                   *)
(***************************************************************************)
EXTENDS Integers, Sequences, FiniteSets, TLC

VARIABLES
    argv,            \* the command line, a sequence of strings (main's argv)
    file,            \* the bytes of the input file
    image,           \* the Proto tree the loader yields for the input file
    pc,              \* main's position
    input_filename,  \* static input_filename
    module_name,     \* static module_name
    proto,           \* main's proto (the loaded tree)
    heap_base,       \* where this run's loader allocated the Proto objects
    output,          \* what has been written to output_file
    nfunctions,      \* static nfunctions
    stack,           \* the activations of create_functions: [p, i]
    func_id,         \* create_function's func_id
    ipc,             \* create_function's loop variable pc
    fpos,            \* print_source_code: bytes of infile consumed
    col,             \* print_source_code's col
    stderr,          \* messages written to stderr
    exit_code,       \* the process's exit status, -1 while it runs
    run,             \* 1 in the first run, 2 in the second
    prev_output,     \* the first run's output, kept for the second
    vm               \* the Lua state while the emitted blocks execute

vars == <<argv, file, image, pc, input_filename, module_name, proto, heap_base,
          output, nfunctions, stack, func_id, ipc, fpos, col, stderr,
          exit_code, run, prev_output, vm>>

-----------------------------------------------------------------------------
(* Sequences *)

RECURSIVE Flatten(_)
Flatten(ss) == IF ss = <<>> THEN <<>> ELSE Head(ss) \o Flatten(Tail(ss))

Rep(n, e) == [i \in 1..n |-> e]

Last(s) == s[Len(s)]

RECURSIVE SeqsUpTo(_, _)
SeqsUpTo(S, n) ==
    IF n = 0 THEN {<<>>}
    ELSE LET shorter == SeqsUpTo(S, n - 1)
         IN  shorter \cup {Append(s, e) : s \in {t \in shorter : Len(t) = n - 1}, e \in S}

-----------------------------------------------------------------------------
(* Character codes used by the program *)

CH_SLASH     == 47
CH_DOT       == 46
CH_c         == 99
CH_QUOTE     == 34
CH_BACKSLASH == 92
CH_AT        == 64
CH_ZERO      == 48
CH_SPACE     == 32
CH_MINUS     == 45
CH_COMMA     == 44
CH_NEWLINE   == 10

(* isprint in the "C" locale (the program never calls setlocale) *)
isprint(c) == c >= 32 /\ c <= 126

(* printf's %d *)
RECURSIVE Digits(_)
Digits(n) == IF n < 10 THEN <<CH_ZERO + n>>
             ELSE Append(Digits(n \div 10), CH_ZERO + (n % 10))

FmtD(n) == IF n < 0 THEN <<CH_MINUS>> \o Digits(0 - n) ELSE Digits(n)

(* printf's %3d: padded with spaces on the left to three characters *)
Fmt3d(n) == LET d == FmtD(n)
            IN  IF Len(d) >= 3 THEN d ELSE Rep(3 - Len(d), CH_SPACE) \o d

(* printf's %03d: padded with zeros on the left to three characters *)
Fmt03d(n) == LET d == Digits(n)
             IN  IF Len(d) >= 3 THEN d ELSE Rep(3 - Len(d), CH_ZERO) \o d

(* One print item *)
P(fmt, s, n, x) == <<fmt, s, n, x>>

-----------------------------------------------------------------------------
(* get_module_name: the module name of an output path.  The result is       *)
(* [kind |-> "ok", name] when the name is accepted, [kind |-> "fatal"] when  *)
(* fatal_error is called, and [kind |-> "ub"] when sep is still NULL at      *)
(* strcmp(sep+1, "c"): the final component holds no '.'.                     *)

(* first loop: start is the position after the last '/' *)
ModuleStart(filename) ==
    LET slashes == {i \in 1..Len(filename) : filename[i] = CH_SLASH}
    IN  IF slashes = {} THEN 1
        ELSE 1 + (CHOOSE i \in slashes : \A j \in slashes : j <= i)

(* second loop: sep is the first '.' at or after start, 0 for NULL *)
ModuleSep(filename) ==
    LET dots == {i \in ModuleStart(filename)..Len(filename) : filename[i] = CH_DOT}
    IN  IF dots = {} THEN 0
        ELSE CHOOSE i \in dots : \A j \in dots : i <= j

get_module_name(filename) ==
    LET start == ModuleStart(filename)
        sep   == ModuleSep(filename)
    IN  IF sep = 0 THEN [kind |-> "ub", name |-> <<>>]
        ELSE IF SubSeq(filename, sep + 1, Len(filename)) # <<CH_c>>
             THEN [kind |-> "fatal", name |-> <<>>]
             ELSE [kind |-> "ok", name |-> SubSeq(filename, start, sep - 1)]

-----------------------------------------------------------------------------
(* PrintString and PrintConstant *)

(* the characters PrintString writes for one byte of the string *)
EscapeByte(c) ==
    CASE c = CH_QUOTE     -> <<CH_BACKSLASH, CH_QUOTE>>
      [] c = CH_BACKSLASH -> <<CH_BACKSLASH, CH_BACKSLASH>>
      [] c = 7            -> <<CH_BACKSLASH, 97>>      \* \a
      [] c = 8            -> <<CH_BACKSLASH, 98>>      \* \b
      [] c = 12           -> <<CH_BACKSLASH, 102>>     \* \f
      [] c = 10           -> <<CH_BACKSLASH, 110>>     \* \n
      [] c = 13           -> <<CH_BACKSLASH, 114>>     \* \r
      [] c = 9            -> <<CH_BACKSLASH, 116>>     \* \t
      [] c = 11           -> <<CH_BACKSLASH, 118>>     \* \v
      [] OTHER            -> IF isprint(c) THEN <<c>>
                             ELSE <<CH_BACKSLASH>> \o Fmt03d(c)

(* all the characters PrintString writes for the string ts *)
PrintString(ts) ==
    <<CH_QUOTE>> \o Flatten([i \in 1..Len(ts) |-> EscapeByte(ts[i])]) \o <<CH_QUOTE>>

(* PrintConstant(f, i), i being 0-based.  A read at or past sizek is a read  *)
(* outside the pool: what is printed then is decided by the bytes found      *)
(* there, g.                                                                 *)
ConstInBounds(f, i) == i >= 0 /\ i < Len(f.k)

PrintConstant(f, i, g) ==
    IF ~ConstInBounds(f, i) THEN P("?%d", "", g, <<>>)
    ELSE LET o == f.k[i + 1]
         IN  CASE o.tt = "nil"     -> P("nil", "", 0, <<>>)
               [] o.tt = "boolean" -> P(IF o.v # 0 THEN "true" ELSE "false", "", 0, <<>>)
               [] o.tt = "numint"  -> P("%lld", "", o.v, FmtD(o.v))
               [] o.tt = "string"  -> P("PrintString", "", 0, PrintString(o.s))

-----------------------------------------------------------------------------
(* Instructions.  An instruction is given by its opcode and its decoded      *)
(* operand fields (lopcodes.h's GET_OPCODE and GETARG_* applied to the       *)
(* word).                                                                    *)

Instr(op, a, b, c, k, bx, sbx, sj, ax) ==
    [op |-> op, a |-> a, b |-> b, c |-> c, k |-> k, bx |-> bx, sbx |-> sbx,
     sj |-> sj, ax |-> ax]

iABC(op, a, b, c, k) == Instr(op, a, b, c, k, 0, 0, 0, 0)
iABx(op, a, bx)      == Instr(op, a, 0, 0, 0, bx, 0, 0, 0)
iAsBx(op, a, sbx)    == Instr(op, a, 0, 0, 0, 0, sbx, 0, 0)
isJ(op, sj)          == Instr(op, 0, 0, 0, 0, 0, 0, sj, 0)
iAx(op, ax)          == Instr(op, 0, 0, 0, 0, 0, 0, 0, ax)

(* luaG_getfuncline: -1 when the prototype has no line information *)
GetFuncLine(f, ipc0) == IF f.lineinfo = <<>> THEN 0 - 1 ELSE f.lineinfo[ipc0 + 1]

(* The constant-pool indices print_opcode_comment reads for an instruction *)
CommentConstReads(i) ==
    CASE i.op = "LOADK"    -> {i.bx}
      [] i.op = "EXTRAARG" -> {i.ax}
      [] OTHER              -> {}

(* VOID(f->p[bx]): the address of the child prototype in this run's heap *)
ProtoAddress(f, bx, heap) == heap + f.p[bx + 1].linedefined

(* print_opcode_comment(f, pc): the operands and the annotation of each      *)
(* opcode, after "//", the instruction number, the line and the mnemonic     *)
OpcodeOperands(f, ipc0, heap, g) ==
    LET i == f.code[ipc0 + 1]
    IN  CASE i.op = "MOVE"   -> <<P("%d %d", "", 0, <<i.a, i.b>>)>>
          [] i.op = "LOADI"  -> <<P("%d %d", "", 0, <<i.a, i.sbx>>)>>
          [] i.op = "LOADK"  -> <<P("%d %d", "", 0, <<i.a, i.bx>>), P("\t; ", "", 0, <<>>),
                                  PrintConstant(f, i.bx, g)>>
          [] i.op = "LOADKX" -> <<P("%d", "", 0, <<i.a>>)>>
          [] i.op = "ADD"    -> <<P("%d %d %d", "", 0, <<i.a, i.b, i.c>>)>>
          [] i.op = "LT"     -> <<P("%d %d %d", "", 0, <<i.a, i.b, i.k>>)>>
          [] i.op = "JMP"    -> <<P("%d", "", 0, <<i.sj>>),
                                  P("\t; to %d", "", i.sj + ipc0 + 2, <<>>)>>
          [] i.op = "RETURN" -> <<P("%d %d %d", "", 0, <<i.a, i.b, i.c>>), P("\t; ", "", 0, <<>>),
                                  IF i.b = 0 THEN P("all out", "", 0, <<>>)
                                  ELSE P("%d out", "", i.b - 1, <<>>)>>
          [] i.op = "RETURN0" -> <<>>
          [] i.op = "RETURN1" -> <<P("%d", "", 0, <<i.a>>)>>
          [] i.op = "FORLOOP" -> <<P("%d %d", "", 0, <<i.a, i.bx>>),
                                   P("\t; to %d", "", ipc0 - i.bx + 2, <<>>)>>
          [] i.op = "FORPREP" -> <<P("%d %d", "", 0, <<i.a, i.bx>>),
                                   P("\t; to %d", "", ipc0 + i.bx + 2, <<>>)>>
          [] i.op = "SETLIST" -> <<P("%d %d %d", "", 0, <<i.a, i.b, i.c>>)>>
          [] i.op = "CLOSURE" -> <<P("%d %d", "", 0, <<i.a, i.bx>>),
                                   P("\t; %p", "", ProtoAddress(f, i.bx, heap), <<>>)>>
          [] i.op = "VARARG"  -> <<P("%d %d", "", 0, <<i.a, i.c>>), P("\t; ", "", 0, <<>>),
                                   IF i.c = 0 THEN P("all out", "", 0, <<>>)
                                   ELSE P("%d out", "", i.c - 1, <<>>)>>
          [] i.op = "VARARGPREP" -> <<P("%d", "", 0, <<i.a>>)>>
          [] i.op = "EXTRAARG" -> <<P("%d", "", 0, <<i.ax>>), P("\t; ", "", 0, <<>>),
                                    PrintConstant(f, i.ax, g)>>
          [] OTHER -> <<P("%d %d %d", "", 0, <<i.a, i.b, i.c>>),
                        P("\t; not handled", "", 0, <<>>)>>

print_opcode_comment(f, ipc0, heap, g) ==
    LET line == GetFuncLine(f, ipc0)
    IN  <<P("  //", "", 0, <<>>), P(" %d\t", "", ipc0 + 1, <<>>),
          IF line > 0 THEN P("[%d]\t", "", line, <<>>) ELSE P("[-]\t", "", 0, <<>>),
          P("%-9s\t", f.code[ipc0 + 1].op, 0, <<>>)>>
        \o OpcodeOperands(f, ipc0, heap, g)
        \o <<P("\n", "", 0, <<>>)>>

-----------------------------------------------------------------------------
(* create_function *)

(* the opcodes create_function's switch has a case for *)
DedicatedOps == {"MOVE", "LOADI", "RETURN", "RETURN0", "RETURN1", "FORLOOP",
                 "FORPREP", "CLOSURE", "VARARG", "VARARGPREP", "EXTRAARG"}

(* the jump back computed from the instruction's own position, not the next *)
ForLoopTarget_FromSelf(ipc0, bx) == ipc0 - bx

(* the label a FORLOOP block jumps back to *)
ForLoopTarget(ipc0, bx) == (ipc0 + 1) - bx

(* the skip that lands on the FORLOOP instead of the instruction after it *)
ForPrepTarget_OnLoop(ipc0, bx) == (ipc0 + 1) + bx

(* the skip that lands one instruction too far *)
ForPrepTarget_TooFar(ipc0, bx) == (ipc0 + 1) + bx + 2

(* the label a FORPREP block jumps to when the loop is skipped *)
ForPrepTarget(ipc0, bx) == (ipc0 + 1) + bx + 1

(* the comment, name and opening brace of the native function *)
FunctionHeader(p, source, id) ==
    <<P("// source = %s", "", 0, source),
      IF p.linedefined = 0 THEN P("// main function", "", 0, <<>>)
      ELSE P("// lines: %d - %d", "", 0, <<p.linedefined, p.lastlinedefined>>),
      P("static", "", 0, <<>>),
      P("void magic_implementation_%02d(lua_State *L, CallInfo *ci)", "", id, <<>>),
      P("{", "", 0, <<>>),
      P("prologue", "", 0, <<>>)>>

(* the instruction pointer bound to the block's own position *)
BlockPc_Self(ipc0) == ipc0

(* the position LUA_AOT_PC is bound to while block ipc0 executes *)
BlockPc(ipc0) == ipc0 + 1

(* the three associations rebound before each block *)
BlockDefines(p, ipc0) ==
    <<P("  #undef  LUA_AOT_PC", "", 0, <<>>),
      P("  #define LUA_AOT_PC (function_code + %d)", "", BlockPc(ipc0), <<>>),
      P("  #undef  LUA_AOT_NEXT_JUMP", "", 0, <<>>)>>
    \o (IF ipc0 + 1 < Len(p.code) /\ p.code[ipc0 + 2].op = "JMP"
        THEN <<P("  #define LUA_AOT_NEXT_JUMP label_todo", "", 0, <<>>)>> ELSE <<>>)
    \o <<P("  #undef  LUA_AOT_SKIP1", "", 0, <<>>)>>
    \o (IF ipc0 + 2 < Len(p.code)
        THEN <<P("  #define LUA_AOT_SKIP1 label_%02d", "", ipc0 + 2, <<>>)>> ELSE <<>>)

(* the label and the declarations every block opens with *)
BlockOpen(p, ipc0) ==
    <<P("  label_%02d : {", "", ipc0, <<>>),
      P("    Instruction i = 0x%08x;", p.code[ipc0 + 1].op, 0, <<>>),
      P("    StkId ra = RA(i);", "", 0, <<>>)>>

(* a default case that emits nothing *)
DefaultBody_Silent == <<>>

(* the switch's default case: the opcode has no case of its own *)
DefaultBody == <<P("    assert(0); /* TODO */", "", 0, <<>>)>>

(* the switch on the opcode: the native code of the block *)
BlockBody(instr, ipc0) ==
    CASE instr.op = "MOVE"    -> <<P("OP_MOVE", "", 0, <<>>)>>
      [] instr.op = "LOADI"   -> <<P("OP_LOADI", "", 0, <<>>)>>
      [] instr.op = "RETURN"  -> <<P("OP_RETURN", "", 0, <<>>)>>
      [] instr.op = "RETURN0" -> <<P("OP_RETURN0", "", 0, <<>>)>>
      [] instr.op = "RETURN1" -> <<P("OP_RETURN1", "", 0, <<>>)>>
      [] instr.op = "FORLOOP" ->
            <<P("OP_FORLOOP integer loop", "", 0, <<>>),
              P("        goto label_%02d; /* jump back */", "", ForLoopTarget(ipc0, instr.bx), <<>>),
              P("OP_FORLOOP floating loop", "", 0, <<>>),
              P("        goto label_%02d; /* jump back */", "", ForLoopTarget(ipc0, instr.bx), <<>>),
              P("OP_FORLOOP updatetrap", "", 0, <<>>)>>
      [] instr.op = "FORPREP" ->
            <<P("OP_FORPREP integer loop", "", 0, <<>>),
              P("        goto label_%02d; /* skip the loop */", "", ForPrepTarget(ipc0, instr.bx), <<>>),
              P("OP_FORPREP prepare loop counter", "", 0, <<>>),
              P("OP_FORPREP floating loop", "", 0, <<>>),
              P("        goto label_%02d; /* skip the loop */", "", ForPrepTarget(ipc0, instr.bx), <<>>),
              P("OP_FORPREP make floats", "", 0, <<>>)>>
      [] instr.op = "CLOSURE"    -> <<P("OP_CLOSURE", "", 0, <<>>)>>
      [] instr.op = "VARARG"     -> <<P("OP_VARARG", "", 0, <<>>)>>
      [] instr.op = "VARARGPREP" -> <<P("OP_VARARGPREP", "", 0, <<>>)>>
      [] instr.op = "EXTRAARG"   -> <<P("    lua_assert(0);", "", 0, <<>>)>>
      [] OTHER                   -> DefaultBody

BlockClose == <<P("  }", "", 0, <<>>)>>

(* everything one iteration of create_function's loop writes *)
InstructionBlock(p, ipc0, heap, g) ==
    print_opcode_comment(p, ipc0, heap, g)
    \o BlockDefines(p, ipc0)
    \o BlockOpen(p, ipc0)
    \o BlockBody(p.code[ipc0 + 1], ipc0)
    \o BlockClose

FunctionFooter == <<P("}", "", 0, <<>>)>>

(* the table with a loop that runs while i <= nfunctions *)
FunctionTable_OneMore(n) ==
    <<P("static AotCompiledFunction LUA_AOT_FUNCTIONS[] = {", "", 0, <<>>)>>
    \o [i \in 1..(n + 1) |-> P("  magic_implementation_%02d,", "", i - 1, <<>>)]
    \o <<P("  NULL", "", 0, <<>>), P("};", "", 0, <<>>)>>

(* print_functions' table: one entry per function, then NULL *)
FunctionTable(n) ==
    <<P("static AotCompiledFunction LUA_AOT_FUNCTIONS[] = {", "", 0, <<>>)>>
    \o [i \in 1..n |-> P("  magic_implementation_%02d,", "", i - 1, <<>>)]
    \o <<P("  NULL", "", 0, <<>>), P("};", "", 0, <<>>)>>

(* an iteration that writes nothing when fgetc returns EOF *)
SourceElement_NoTerminator(c, cl) ==
    IF c = 0 - 1 THEN <<P("\n", "", 0, <<CH_NEWLINE>>)>>
    ELSE (IF cl = 0 THEN <<P("  ", "", 0, <<CH_SPACE, CH_SPACE>>)>> ELSE <<>>)
         \o <<P("%3d", "", 0, Fmt3d(c)), P(", ", "", 0, <<CH_COMMA, CH_SPACE>>)>>
         \o (IF cl + 1 = 16 THEN <<P("\n", "", 0, <<CH_NEWLINE>>)>> ELSE <<>>)

(* print_source_code: what one iteration writes, c being fgetc's result      *)
(* (-1 for EOF) and cl the value of col before the iteration                 *)
EOF == 0 - 1

SourceElement(c, cl) ==
    (IF cl = 0 THEN <<P("  ", "", 0, <<CH_SPACE, CH_SPACE>>)>> ELSE <<>>)
    \o (IF c = EOF THEN <<P("%3d", "", 0, Fmt3d(0))>>
        ELSE <<P("%3d", "", 0, Fmt3d(c)), P(", ", "", 0, <<CH_COMMA, CH_SPACE>>)>>)
    \o (IF cl + 1 = 16 \/ c = EOF THEN <<P("\n", "", 0, <<CH_NEWLINE>>)>> ELSE <<>>)

(* col after the iteration *)
SourceCol(c, cl) == IF cl + 1 = 16 \/ c = EOF THEN 0 ELSE cl + 1

SourceOpen  == <<P("static const char LUA_AOT_MODULE_SOURCE_CODE[] = {", "", 0, <<>>)>>
SourceClose == <<P("};", "", 0, <<>>)>>

(* main's output before and after the functions and the source *)
MainHeader == <<P("#include \"luaot_header.c\"", "", 0, <<>>), P(" ", "", 0, <<>>)>>

(* the footer inclusion written before the module-name macro *)
MainFooter_FooterFirst(name) ==
    <<P(" ", "", 0, <<>>),
      P("#include \"luaot_footer.c\"", "", 0, <<>>),
      P(" ", "", 0, <<>>),
      P("#define LUA_AOT_LUAOPEN_NAME luaopen_%s", "", 0, name)>>

MainFooter(name) ==
    <<P(" ", "", 0, <<>>),
      P("#define LUA_AOT_LUAOPEN_NAME luaopen_%s", "", 0, name),
      P(" ", "", 0, <<>>),
      P("#include \"luaot_footer.c\"", "", 0, <<>>)>>

-----------------------------------------------------------------------------
(* The inputs: command lines, input files and the Proto trees of compiled    *)
(* chunks.                                                                   *)

MaxPathLen   == 5   \* output paths have at most this many characters
MaxSrcTail   == 2   \* input files: an optional run of SrcRun bytes, then at most this many bytes
SrcRun       == 15  \* the length of the run that brings col to the end of a row
MaxStrLen    == 2   \* string constants over StrBytes have at most this many bytes
MaxNodes     == 4   \* Proto trees have at most this many prototypes
MaxPad       == 1   \* straight-line instructions before and after a nested statement
MaxPrefix    == 14  \* straight-line instructions before a long loop
MaxLoopBody  == 5   \* instructions in the body of a long loop

PathChars == {CH_SLASH, CH_DOT, CH_c, 109}
Paths     == SeqsUpTo(PathChars, MaxPathLen)

ProgName == <<108, 117, 97, 111, 116>>     \* "luaot"
InName   == <<105, 110>>                   \* "in"
OutName  == <<109, CH_DOT, CH_c>>          \* "m.c"

Argvs == {<<ProgName>>, <<ProgName, InName>>, <<ProgName, InName, OutName, OutName>>}
         \cup {<<ProgName, InName, out>> : out \in Paths}

SrcBytes == {0, CH_NEWLINE, 65, 255}
Files == {pre \o tail : pre \in {<<>>, [i \in 1..SrcRun |-> 96 + i]},
                        tail \in SeqsUpTo(SrcBytes, MaxSrcTail)}

StrBytes == {CH_QUOTE, CH_BACKSLASH, CH_NEWLINE, 1, 14, 200, 97, 49}
Strings == SeqsUpTo(StrBytes, MaxStrLen) \cup {<<b>> : b \in 0..255}

(* code as the compiler lays it out *)
Move == iABC("MOVE", 0, 1, 0, 0)
Add  == iABC("ADD", 0, 1, 2, 0)
Pad(n) == [i \in 1..n |-> IF i % 2 = 1 THEN Move ELSE Add]

(* for i = a, b, c do body end: FORPREP skips to the instruction after the   *)
(* FORLOOP, FORLOOP jumps back to the first instruction of the body          *)
ForStat(body) == <<iABx("FORPREP", 0, Len(body))>> \o body
                 \o <<iABx("FORLOOP", 0, Len(body) + 1)>>
(* if x < y then body end: a test, then a jump over the body *)
IfStat(body) == <<iABC("LT", 0, 1, 0, 0), isJ("JMP", Len(body))>> \o body
(* while true do body end: a jump back to the first instruction of the body *)
WhileStat(body) == body \o <<isJ("JMP", 0 - (Len(body) + 1))>>

Wrap(B) == {ForStat(b) : b \in B} \cup {IfStat(b) : b \in B} \cup {WhileStat(b) : b \in B}

Body0 == {Pad(n) : n \in 0..MaxPad}
Body1 == {Pad(n) \o w \o Pad(m) : n \in 0..MaxPad, m \in 0..MaxPad, w \in Wrap(Body0)}
Body2 == Wrap(Body1)
LongLoops == {Pad(n) \o w : n \in 0..MaxPrefix,
                            w \in UNION {{ForStat(Pad(m)), IfStat(Pad(m))} : m \in 0..MaxLoopBody}}

Returns == {iABC("RETURN", 0, 1, 0, 0), iABC("RETURN", 0, 2, 0, 1),
            iABC("RETURN0", 0, 0, 0, 0), iABC("RETURN1", 0, 0, 0, 0)}

(* a prototype: its children are referenced by one CLOSURE each *)
MkProto(line, body, k, children, ret) ==
    LET code == (IF line = 0 THEN <<iABC("VARARGPREP", 0, 0, 0, 0)>> ELSE <<>>)
                \o body
                \o [i \in 1..Len(children) |-> iABx("CLOSURE", 0, i - 1)]
                \o <<ret>>
    IN  [code |-> code, k |-> k, p |-> children,
         linedefined |-> line, lastlinedefined |-> line + 1,
         lineinfo |-> [i \in 1..Len(code) |-> line + 1]]

MainRet == iABC("RETURN", 0, 1, 1, 0)

(* ordered forests with n nodes *)
RECURSIVE Forests(_)
Forests(n) ==
    IF n = 0 THEN {<<>>}
    ELSE UNION {{<<t>> \o f : t \in Forests(m - 1), f \in Forests(n - m)} : m \in 1..n}

Shapes == UNION {Forests(n - 1) : n \in 1..MaxNodes}

(* the Proto tree of a shape; the prototype at child index i of the one      *)
(* defined at line l is defined at line 8*l + i                               *)
RECURSIVE TreeOf(_, _)
TreeOf(shape, line) ==
    MkProto(line, <<>>, <<>>,
            [i \in 1..Len(shape) |-> TreeOf(shape[i], 8 * line + i)],
            IF line = 0 THEN MainRet ELSE iABC("RETURN0", 0, 0, 0, 0))

StrConst(s) == [tt |-> "string", v |-> 0, s |-> s]
IntConst(v) == [tt |-> "numint", v |-> v, s |-> <<>>]
NilConst    == [tt |-> "nil", v |-> 0, s |-> <<>>]
BoolConst(b) == [tt |-> "boolean", v |-> b, s |-> <<>>]

LoadK == <<iABx("LOADK", 0, 0)>>

ImgBodies  == {MkProto(0, b, <<>>, <<>>, MainRet) : b \in Body0 \cup Body1 \cup Body2 \cup LongLoops}
ImgShapes  == {TreeOf(sh, 0) : sh \in Shapes}
ImgStrings == {MkProto(0, LoadK, <<StrConst(s)>>, <<>>, MainRet) : s \in Strings}
ImgConsts  == {MkProto(0, LoadK, <<c>>, <<>>, MainRet) :
                 c \in {NilConst, BoolConst(0), BoolConst(1), IntConst(0 - 12), IntConst(7)}}
ImgReturns == {MkProto(0, <<iAsBx("LOADI", 0, 5)>>, <<>>,
                       <<MkProto(3, <<Move>>, <<>>, <<>>, r)>>, MainRet) : r \in Returns}
(* LOADKX and a SETLIST of a long list are followed by an EXTRAARG: the Ax   *)
(* of the first is a constant index, the Ax of the second a batch number     *)
ImgExtra   == {MkProto(0, <<iABC("LOADKX", 0, 0, 0, 0), iAx("EXTRAARG", 1)>>,
                       <<IntConst(1), IntConst(2)>>, <<>>, MainRet),
               MkProto(0, <<iABC("SETLIST", 0, 1, 0, 0), iAx("EXTRAARG", 256)>> \o Pad(1),
                       <<IntConst(1)>>, <<>>, MainRet)}
(* for i = 1, 5 do end: the three loop registers, the loop, the return *)
ImgForLoop == {MkProto(0, <<iAsBx("LOADI", 0, 1), iAsBx("LOADI", 1, 5), iAsBx("LOADI", 2, 1)>>
                          \o ForStat(<<>>), <<>>, <<>>, MainRet)}
(* unsupported instructions in a function that has a nested function *)
ImgMixed == {MkProto(0, Pad(2), <<>>, <<MkProto(1, Pad(2), <<>>, <<>>, iABC("RETURN0", 0, 0, 0, 0))>>,
                     MainRet)}
(* a chunk stripped of its line information *)
ImgStripped == {[MkProto(0, Pad(1), <<>>, <<>>, MainRet) EXCEPT !.lineinfo = <<>>]}

Images == ImgBodies \cup ImgShapes \cup ImgStrings \cup ImgConsts \cup ImgReturns
          \cup ImgExtra \cup ImgForLoop \cup ImgMixed \cup ImgStripped

DefaultArgv  == <<ProgName, InName, OutName>>
DefaultFile  == <<CH_NEWLINE>>
DefaultImage == MkProto(0, <<>>, <<>>, <<>>, MainRet)

Scenarios ==
    {[argv |-> a, file |-> DefaultFile, image |-> DefaultImage] : a \in Argvs}
    \cup {[argv |-> DefaultArgv, file |-> f, image |-> DefaultImage] : f \in Files}
    \cup {[argv |-> DefaultArgv, file |-> DefaultFile, image |-> im] : im \in Images}

(* where the loader may place the Proto objects *)
HeapBases == {4096, 8192}
(* what a read past the end of the constant pool may find *)
Garbage == {64, 65}
(* the status of a process killed by SIGSEGV, as the shell reports it *)
CrashStatus == 128 + 11

NoProto == [code |-> <<>>, k |-> <<>>, p |-> <<>>, linedefined |-> 0,
            lastlinedefined |-> 0, lineinfo |-> <<>>]

(* no emitted block is executing *)
NoVm == [status |-> "off"]

-----------------------------------------------------------------------------
(* The run *)

Init ==
    /\ \E sc \in Scenarios : argv = sc.argv /\ file = sc.file /\ image = sc.image
    /\ pc = "main"
    /\ input_filename = <<>>
    /\ module_name = <<>>
    /\ proto = NoProto
    /\ heap_base = 0
    /\ output = <<>>
    /\ nfunctions = 0
    /\ stack = <<>>
    /\ func_id = 0
    /\ ipc = 0
    /\ fpos = 0
    /\ col = 0
    /\ stderr = <<>>
    /\ exit_code = 0 - 1
    /\ run = 1
    /\ prev_output = <<>>
    /\ vm = NoVm

(* exit(status), after msg (if any) went to stderr *)
Exit(msg, status) ==
    /\ stderr' = IF msg = "" THEN stderr ELSE Append(stderr, msg)
    /\ exit_code' = status
    /\ pc' = "exited"

(* main: the argument count and get_module_name *)
Main_Args ==
    /\ pc = "main"
    /\ IF Len(argv) # 3
       THEN /\ Exit("usage: %s input.lua output.c", 1)
            /\ UNCHANGED <<input_filename, module_name>>
       ELSE LET r == get_module_name(argv[3])
            IN  CASE r.kind = "ok" ->
                      /\ input_filename' = argv[2]
                      /\ module_name' = r.name
                      /\ pc' = "load"
                      /\ UNCHANGED <<stderr, exit_code>>
                  [] r.kind = "fatal" ->
                      /\ Exit("output file is not of a \"c\" file", 1)
                      /\ input_filename' = argv[2]
                      /\ UNCHANGED module_name
                  [] r.kind = "ub" ->
                      \* strcmp reads through sep+1 with sep NULL: the process is
                      \* killed, or the bytes it finds there differ from "c"
                      /\ \/ Exit("", CrashStatus)
                         \/ Exit("output file is not of a \"c\" file", 1)
                      /\ input_filename' = argv[2]
                      /\ UNCHANGED module_name
    /\ UNCHANGED <<argv, file, image, proto, heap_base, output, nfunctions, stack,
                   func_id, ipc, fpos, col, run, prev_output, vm>>

(* main: luaL_loadfile *)
Main_Load ==
    /\ pc = "load"
    /\ \/ /\ proto' = image
          /\ heap_base' \in HeapBases
          /\ pc' = "open"
          /\ UNCHANGED <<stderr, exit_code>>
       \/ /\ Exit("cannot open input", 1)
          /\ UNCHANGED <<proto, heap_base>>
    /\ UNCHANGED <<argv, file, image, input_filename, module_name, output, nfunctions,
                   stack, func_id, ipc, fpos, col, run, prev_output, vm>>

(* main: fopen of the output file, the header inclusion *)
Main_Open ==
    /\ pc = "open"
    /\ \/ /\ output' = MainHeader
          /\ pc' = "print_functions"
          /\ UNCHANGED <<stderr, exit_code>>
       \/ /\ Exit("strerror(errno)", 1)
          /\ UNCHANGED output
    /\ UNCHANGED <<argv, file, image, input_filename, module_name, proto, heap_base,
                   nfunctions, stack, func_id, ipc, fpos, col, run, prev_output, vm>>

(* print_functions calls create_functions(proto) *)
PrintFunctions_Call ==
    /\ pc = "print_functions"
    /\ stack' = <<[p |-> proto, i |-> 0]>>
    /\ pc' = "create_function"
    /\ UNCHANGED <<argv, file, image, input_filename, module_name, proto, heap_base,
                   output, nfunctions, func_id, ipc, fpos, col, stderr, exit_code,
                   run, prev_output, vm>>

(* getstr(p->source): the chunk name luaL_loadfile gives, "@" and the file name *)
SourceName == <<CH_AT>> \o input_filename

(* create_function: func_id = nfunctions++, and the function's header *)
CreateFunction_Begin ==
    /\ pc = "create_function"
    /\ func_id' = nfunctions
    /\ nfunctions' = nfunctions + 1
    /\ output' = output \o FunctionHeader(Last(stack).p, SourceName, nfunctions)
    /\ ipc' = 0
    /\ pc' = "instr"
    /\ UNCHANGED <<argv, file, image, input_filename, module_name, proto, heap_base,
                   stack, fpos, col, stderr, exit_code, run, prev_output, vm>>

(* create_function: one iteration of the loop over the instructions *)
CreateFunction_Instr ==
    /\ pc = "instr"
    /\ ipc < Len(Last(stack).p.code)
    /\ LET p == Last(stack).p
           reads == CommentConstReads(p.code[ipc + 1])
       IN  IF \A i \in reads : ConstInBounds(p, i)
           THEN /\ output' = output \o InstructionBlock(p, ipc, heap_base, 0)
                /\ ipc' = ipc + 1
                /\ UNCHANGED <<pc, stderr, exit_code>>
           ELSE \* PrintConstant reads past the constant pool
                \/ /\ \E g \in Garbage :
                        output' = output \o InstructionBlock(p, ipc, heap_base, g)
                   /\ ipc' = ipc + 1
                   /\ UNCHANGED <<pc, stderr, exit_code>>
                \/ /\ Exit("", CrashStatus)
                   /\ UNCHANGED <<output, ipc>>
    /\ UNCHANGED <<argv, file, image, input_filename, module_name, proto, heap_base,
                   nfunctions, stack, func_id, fpos, col, run, prev_output, vm>>

(* create_function: the closing brace *)
CreateFunction_End ==
    /\ pc = "instr"
    /\ ipc >= Len(Last(stack).p.code)
    /\ output' = output \o FunctionFooter \o <<P(" ", "", 0, <<>>)>>
    /\ pc' = "children"
    /\ UNCHANGED <<argv, file, image, input_filename, module_name, proto, heap_base,
                   nfunctions, stack, func_id, ipc, fpos, col, stderr, exit_code,
                   run, prev_output, vm>>

(* create_functions: the call for the next child *)
CreateFunctions_Recurse ==
    /\ pc = "children"
    /\ LET top == Last(stack)
       IN  /\ top.i < Len(top.p.p)
           /\ stack' = Append(stack, [p |-> top.p.p[top.i + 1], i |-> 0])
    /\ pc' = "create_function"
    /\ UNCHANGED <<argv, file, image, input_filename, module_name, proto, heap_base,
                   output, nfunctions, func_id, ipc, fpos, col, stderr, exit_code,
                   run, prev_output, vm>>

(* create_functions returns: to the caller's loop, which steps to its next   *)
(* child, or to print_functions                                              *)
CreateFunctions_Return ==
    /\ pc = "children"
    /\ Last(stack).i >= Len(Last(stack).p.p)
    /\ LET rest == SubSeq(stack, 1, Len(stack) - 1)
       IN  IF rest = <<>>
           THEN stack' = rest /\ pc' = "table"
           ELSE /\ stack' = [rest EXCEPT ![Len(rest)].i = @ + 1]
                /\ pc' = "children"
    /\ UNCHANGED <<argv, file, image, input_filename, module_name, proto, heap_base,
                   output, nfunctions, func_id, ipc, fpos, col, stderr, exit_code,
                   run, prev_output, vm>>

(* print_functions: the table; main's blank line after it *)
PrintFunctions_Table ==
    /\ pc = "table"
    /\ output' = output \o FunctionTable(nfunctions) \o <<P(" ", "", 0, <<>>)>>
    /\ pc' = "print_source_code"
    /\ UNCHANGED <<argv, file, image, input_filename, module_name, proto, heap_base,
                   nfunctions, stack, func_id, ipc, fpos, col, stderr, exit_code,
                   run, prev_output, vm>>

(* print_source_code: fopen of the input file, the array's opening line *)
PrintSourceCode_Open ==
    /\ pc = "print_source_code"
    /\ \/ /\ output' = output \o SourceOpen
          /\ fpos' = 0
          /\ col' = 0
          /\ pc' = "fgetc"
          /\ UNCHANGED <<stderr, exit_code>>
       \/ /\ Exit("could not open input file a second time", 1)
          /\ UNCHANGED <<output, fpos, col>>
    /\ UNCHANGED <<argv, file, image, input_filename, module_name, proto, heap_base,
                   nfunctions, stack, func_id, ipc, run, prev_output, vm>>

(* print_source_code: one iteration of the do-while loop; after the          *)
(* iteration that reads EOF, the closing line                                *)
PrintSourceCode_Byte ==
    /\ pc = "fgetc"
    /\ LET c == IF fpos < Len(file) THEN file[fpos + 1] ELSE EOF
       IN  /\ output' = output \o SourceElement(c, col)
                               \o (IF c = EOF THEN SourceClose ELSE <<>>)
           /\ col' = SourceCol(c, col)
           /\ fpos' = IF c = EOF THEN fpos ELSE fpos + 1
           /\ pc' = IF c = EOF THEN "footer" ELSE "fgetc"
    /\ UNCHANGED <<argv, file, image, input_filename, module_name, proto, heap_base,
                   nfunctions, stack, func_id, ipc, stderr, exit_code, run, prev_output, vm>>

(* main: the module-name macro and the footer inclusion; main returns *)
Main_Footer ==
    /\ pc = "footer"
    /\ output' = output \o MainFooter(module_name)
    /\ exit_code' = 0
    /\ pc' = "exited"
    /\ UNCHANGED <<argv, file, image, input_filename, module_name, proto, heap_base,
                   nfunctions, stack, func_id, ipc, fpos, col, stderr, run, prev_output, vm>>

(* the program is run again with the same arguments on the same input *)
Rerun ==
    /\ pc = "exited"
    /\ exit_code = 0
    /\ run = 1
    /\ run' = 2
    /\ prev_output' = output
    /\ pc' = "main"
    /\ input_filename' = <<>>
    /\ module_name' = <<>>
    /\ proto' = NoProto
    /\ heap_base' = 0
    /\ output' = <<>>
    /\ nfunctions' = 0
    /\ stack' = <<>>
    /\ func_id' = 0
    /\ ipc' = 0
    /\ fpos' = 0
    /\ col' = 0
    /\ stderr' = <<>>
    /\ exit_code' = 0 - 1
    /\ UNCHANGED <<argv, file, image, vm>>

Next ==
    \/ Main_Args
    \/ Main_Load
    \/ Main_Open
    \/ PrintFunctions_Call
    \/ CreateFunction_Begin
    \/ CreateFunction_Instr
    \/ CreateFunction_End
    \/ CreateFunctions_Recurse
    \/ CreateFunctions_Return
    \/ PrintFunctions_Table
    \/ PrintSourceCode_Open
    \/ PrintSourceCode_Byte
    \/ Main_Footer
    \/ Rerun

Spec == Init /\ [][Next]_vars

-----------------------------------------------------------------------------
(* Reading the output back *)

HdrFmt      == "void magic_implementation_%02d(lua_State *L, CallInfo *ci)"
NumberFmt   == " %d\t"
LabelFmt    == "  label_%02d : {"
WordFmt     == "    Instruction i = 0x%08x;"
JumpBackFmt == "        goto label_%02d; /* jump back */"
SkipLoopFmt == "        goto label_%02d; /* skip the loop */"
ToFmt       == "\t; to %d"
TodoFmt     == "    assert(0); /* TODO */"
EntryFmt    == "  magic_implementation_%02d,"
TableFmt    == "static AotCompiledFunction LUA_AOT_FUNCTIONS[] = {"
ArrayFmt    == "static const char LUA_AOT_MODULE_SOURCE_CODE[] = {"
EndFmt      == "};"
NullFmt     == "  NULL"
HeaderInc   == "#include \"luaot_header.c\""
FooterInc   == "#include \"luaot_footer.c\""
LuaopenFmt  == "#define LUA_AOT_LUAOPEN_NAME luaopen_%s"
TodoJumpFmt == "  #define LUA_AOT_NEXT_JUMP label_todo"
UndefJumpFmt == "  #undef  LUA_AOT_NEXT_JUMP"
PcFmt       == "  #define LUA_AOT_PC (function_code + %d)"
UndefPcFmt  == "  #undef  LUA_AOT_PC"

(* the positions of the items of out written with format fmt *)
Where(out, fmt) == {i \in 1..Len(out) : out[i][1] = fmt}

(* the items of out written with format fmt, in order *)
Items(out, fmt) == SelectSeq(out, LAMBDA it : it[1] = fmt)

(* the positions of the items of out written with format fmt, in order *)
Positions(out, fmt) ==
    SelectSeq([i \in 1..Len(out) |-> i], LAMBDA i : out[i][1] = fmt)

(* out cut at the positions cuts (ascending): piece j runs from cuts[j] to   *)
(* the item before cuts[j+1], the last piece to the end of out               *)
Pieces(out, cuts) ==
    [j \in 1..Len(cuts) |->
        SubSeq(out, cuts[j], IF j < Len(cuts) THEN cuts[j + 1] - 1 ELSE Len(out))]

(* the text of each native function, in order: from its name to the item     *)
(* before the next function's name (for the last one, before the table)      *)
FunctionTexts(out) ==
    LET upto == IF Where(out, TableFmt) = {} THEN out
                ELSE SubSeq(out, 1, (CHOOSE i \in Where(out, TableFmt) : TRUE) - 1)
    IN  Pieces(upto, Positions(upto, HdrFmt))

(* the text written for each instruction of a native function, in order:     *)
(* from the "//" that opens its comment to the item before the next one      *)
InstructionTexts(ftext) == Pieces(ftext, Positions(ftext, "  //"))

(* the number argument of the one item of text written with format fmt *)
Arg(text, fmt) == Items(text, fmt)[1][3]

(* the prototypes of a tree in pre-order: a prototype, then the pre-order of *)
(* each of its children in index order                                       *)
RECURSIVE PreOrder(_)
PreOrder(p) == <<p>> \o Flatten([i \in 1..Len(p.p) |-> PreOrder(p.p[i])])

(* print_functions has returned *)
FunctionsPrinted == pc \in {"print_source_code", "fgetc", "footer"}
                    \/ (pc = "exited" /\ exit_code = 0)

Succeeded == pc = "exited" /\ exit_code = 0

-----------------------------------------------------------------------------
(* Executing the emitted blocks.  The native function create_function wrote  *)
(* for `image` is called by the runtime; each block is one step.  Values are *)
(* tagged as in the constant pool; integers are IntBits wide.                *)

IntBits == 3
MinInteger == 0 - 2 ^ (IntBits - 1)
MaxInteger == 2 ^ (IntBits - 1) - 1
Integer == MinInteger..MaxInteger

l_castS2U(x) == x % (2 ^ IntBits)
l_castU2S(u) == IF u >= 2 ^ (IntBits - 1) THEN u - 2 ^ IntBits ELSE u
(* intop: the operation on unsigned values, the result cast back *)
intop(x) == l_castU2S(x % (2 ^ IntBits))

TNil == [tt |-> "nil", v |-> 0]
TInt(n) == [tt |-> "numint", v |-> n]
ttisinteger(o) == o.tt = "numint"

(* the frame the runtime sets up for the call: the function's slot, the      *)
(* frame's size, the extra arguments of a vararg call                        *)
FuncSlot == 2
FrameSize == 5
NExtraArgs == 1
MaxResults == 3
Slots == 0..(FuncSlot + 1 + FrameSize)

(* the functions that are run: three LOADI set the loop registers, the loop  *)
(* body is empty or copies a register into the control variable              *)
LoopBodies == {<<>>, <<iABC("MOVE", 3, 3, 0, 0)>>, <<iABC("MOVE", 3, 4, 0, 0)>>}
LoopProgs ==
    {MkProto(1, <<iAsBx("LOADI", 0, i), iAsBx("LOADI", 1, l), iAsBx("LOADI", 2, st)>>
                \o ForStat(b),
             <<>>, <<>>, iABC("RETURN0", 0, 0, 0, 0)) :
        i \in Integer, l \in Integer, st \in Integer, b \in LoopBodies}
(* a function that only returns; any instruction word may come from a        *)
(* precompiled chunk                                                         *)
ReturnInstrs ==
    {iABC("RETURN", a, b, c, k) : a \in 0..1, b \in 0..2, c \in 0..1, k \in 0..1}
    \cup {iABC(op, a, 0, 0, k) : op \in {"RETURN0", "RETURN1"}, a \in 0..1, k \in 0..1}
ReturnProgs == {MkProto(1, <<>>, <<>>, <<>>, r) : r \in ReturnInstrs}

(* the Lua state when the native function is entered *)
VmEntry(hook, nres) ==
    [status   |-> "running",
     vpc      |-> 0,                              \* the block to execute
     s        |-> [i \in Slots |-> TInt(i % (MaxInteger + 1))],   \* the stack
     base     |-> FuncSlot + 1,
     func     |-> FuncSlot,                       \* ci->func
     top      |-> FuncSlot + 1 + 2,               \* L->top
     citop    |-> FuncSlot + 1 + FrameSize,       \* ci->top
     ci       |-> "callee",                       \* L->ci
     hookmask |-> hook,
     nresults |-> nres,                           \* ci->nresults
     trace    |-> <<>>,                           \* luaF_close, luaD_poscall, L->ci = ci->previous
     hist     |-> <<>>]                           \* the control variable at each entry of the loop body

RunInit ==
    /\ \/ /\ image \in LoopProgs
          /\ vm = VmEntry(0, 0)
       \/ /\ image \in ReturnProgs
          /\ \E hook \in 0..1, nres \in (0 - 1)..MaxResults : vm = VmEntry(hook, nres)
    /\ argv = DefaultArgv
    /\ file = DefaultFile
    /\ pc = "run"
    /\ input_filename = <<>>
    /\ module_name = <<>>
    /\ proto = NoProto
    /\ heap_base = 0
    /\ output = <<>>
    /\ nfunctions = 0
    /\ stack = <<>>
    /\ func_id = 0
    /\ ipc = 0
    /\ fpos = 0
    /\ col = 0
    /\ stderr = <<>>
    /\ exit_code = 0 - 1
    /\ run = 1
    /\ prev_output = <<>>

generator == <<argv, file, image, pc, input_filename, module_name, proto, heap_base,
               output, nfunctions, stack, func_id, ipc, fpos, col, stderr,
               exit_code, run, prev_output>>

(* the instruction whose block is the next to execute *)
Current == image.code[vm.vpc + 1]
Executing(op) ==
    /\ pc = "run"
    /\ vm.status = "running"
    /\ vm.vpc < Len(image.code)
    /\ Current.op = op
RA(i) == vm.base + i.a
RB(i) == vm.base + i.b

(* the label of the goto written with format fmt in the block of the         *)
(* instruction at position ipc0                                              *)
GotoLabel(instr, ipc0, fmt) ==
    LET body == BlockBody(instr, ipc0)
    IN  body[CHOOSE i \in Where(body, fmt) : \A j \in Where(body, fmt) : i <= j][3]

(* luaF_close(L, base, LUA_OK) *)
luaF_close(m) == [m EXCEPT !.trace = Append(@, "luaF_close")]

(* luaD_poscall(L, ci, nres): the nres values below L->top go to ci->func    *)
(* and up, cut or completed with nil to the number the caller wants, and the *)
(* caller's frame is current again                                           *)
luaD_poscall(m, nres) ==
    LET wanted == IF m.nresults < 0 THEN nres ELSE m.nresults
        first  == m.top - nres
    IN  [m EXCEPT !.s = [i \in Slots |->
                            IF i >= m.func /\ i < m.func + wanted
                            THEN (IF i - m.func < nres THEN m.s[first + (i - m.func)] ELSE TNil)
                            ELSE m.s[i]],
                  !.top = m.func + wanted,
                  !.ci = "caller",
                  !.trace = Append(@, "luaD_poscall")]

(* forlimit for an integer limit: the limit itself, and whether the loop     *)
(* does not run at all                                                       *)
forlimit(init, limit, step) == IF step > 0 THEN init > limit ELSE init < limit

(* case OP_MOVE *)
Exec_Move ==
    /\ Executing("MOVE")
    /\ vm' = [vm EXCEPT !.s[RA(Current)] = vm.s[RB(Current)], !.vpc = @ + 1]
    /\ UNCHANGED generator

(* case OP_LOADI *)
Exec_LoadI ==
    /\ Executing("LOADI")
    /\ vm' = [vm EXCEPT !.s[RA(Current)] = TInt(Current.sbx), !.vpc = @ + 1]
    /\ UNCHANGED generator

(* TESTARG_k(i) in the OP_RETURN block: may there be open upvalues? *)
ReturnCloses(i) == i.k = 1

(* case OP_RETURN *)
Exec_Return ==
    /\ Executing("RETURN")
    /\ LET i  == Current
           ra == RA(i)
           n  == IF i.b - 1 < 0 THEN vm.top - ra ELSE i.b - 1
           m1 == IF ReturnCloses(i)
                 THEN luaF_close([vm EXCEPT !.top = IF vm.top < vm.citop THEN vm.citop ELSE vm.top])
                 ELSE vm
           m2 == IF i.c # 0 THEN [m1 EXCEPT !.func = @ - (NExtraArgs + i.c)] ELSE m1
           m3 == [m2 EXCEPT !.top = ra + n]
       IN  vm' = [luaD_poscall(m3, n) EXCEPT !.status = "returned"]
    /\ UNCHANGED generator

(* a loop that decrements before it tests, as OP_RETURN1's does *)
Return0Nils_PreDecrement(nres) == IF nres - 1 > 0 THEN nres - 1 ELSE 0

(* while (nres-- > 0): the number of nils the OP_RETURN0 block writes *)
Return0Nils(nres) == IF nres > 0 THEN nres ELSE 0

(* case OP_RETURN0 *)
Exec_Return0 ==
    /\ Executing("RETURN0")
    /\ LET ra == RA(Current)
       IN  IF vm.hookmask # 0
           THEN vm' = [luaD_poscall([vm EXCEPT !.top = ra], 0) EXCEPT !.status = "returned"]
           ELSE LET nres == vm.nresults
                    nils == Return0Nils(nres)
                IN  vm' = [vm EXCEPT
                             !.ci = "caller",
                             !.trace = Append(@, "L->ci = ci->previous"),
                             !.s = [j \in Slots |->
                                      IF j >= vm.base - 1 /\ j < vm.base - 1 + nils
                                      THEN TNil ELSE vm.s[j]],
                             !.top = vm.base - 1 + nils,
                             !.status = "returned"]
    /\ UNCHANGED generator

(* while (--nres > 0): the number of nils the OP_RETURN1 block writes *)
Return1Nils(nres) == IF nres - 1 > 0 THEN nres - 1 ELSE 0

(* case OP_RETURN1 *)
Exec_Return1 ==
    /\ Executing("RETURN1")
    /\ LET ra == RA(Current)
       IN  IF vm.hookmask # 0
           THEN vm' = [luaD_poscall([vm EXCEPT !.top = ra + 1], 1) EXCEPT !.status = "returned"]
           ELSE LET nres == vm.nresults
                    nils == Return1Nils(nres)
                IN  vm' = [vm EXCEPT
                             !.ci = "caller",
                             !.trace = Append(@, "L->ci = ci->previous"),
                             !.s = IF nres = 0 THEN vm.s
                                   ELSE [j \in Slots |->
                                           IF j = vm.base - 1 THEN vm.s[ra]
                                           ELSE IF j >= vm.base /\ j < vm.base + nils
                                           THEN TNil ELSE vm.s[j]],
                             !.top = IF nres = 0 THEN vm.base - 1 ELSE vm.base + nils,
                             !.status = "returned"]
    /\ UNCHANGED generator

(* OP_FORPREP: the loop counter, computed in unsigned arithmetic *)
ForPrepCount(init, limit, step) ==
    IF step > 0
    THEN LET c == (l_castS2U(limit) - l_castS2U(init)) % (2 ^ IntBits)
         IN  IF step # 1 THEN c \div l_castS2U(step) ELSE c
    ELSE LET c == (l_castS2U(init) - l_castS2U(limit)) % (2 ^ IntBits)
         IN  c \div ((l_castS2U(0 - (step + 1)) + 1) % (2 ^ IntBits))

(* case OP_FORPREP, the loop of integers *)
Exec_ForPrep ==
    /\ Executing("FORPREP")
    /\ LET i  == Current
           ra == RA(i)
       IN  /\ ttisinteger(vm.s[ra]) /\ ttisinteger(vm.s[ra + 2])
           /\ LET init  == vm.s[ra].v
                  step  == vm.s[ra + 2].v
                  limit == vm.s[ra + 1].v
              IN  IF step = 0
                  THEN vm' = [vm EXCEPT !.status = "error"]   \* luaG_runerror
                  ELSE IF forlimit(init, limit, step)
                  THEN vm' = [vm EXCEPT !.s[ra + 3] = TInt(init),
                                        !.vpc = GotoLabel(i, vm.vpc, SkipLoopFmt)]
                  ELSE vm' = [vm EXCEPT !.s[ra + 3] = TInt(init),
                                        !.s[ra + 1] = TInt(l_castU2S(ForPrepCount(init, limit, step))),
                                        !.hist = Append(@, TInt(init)),
                                        !.vpc = @ + 1]
    /\ UNCHANGED generator

(* the step that reads the control variable *)
ForLoopIndex_FromControl(m, ra) == m.s[ra + 3].v

(* OP_FORLOOP: the internal index the step starts from *)
ForLoopIndex(m, ra) == m.s[ra].v

(* case OP_FORLOOP, the loop of integers *)
Exec_ForLoop ==
    /\ Executing("FORLOOP")
    /\ LET i  == Current
           ra == RA(i)
       IN  /\ ttisinteger(vm.s[ra + 2])
           /\ LET count == l_castS2U(vm.s[ra + 1].v)
              IN  IF count > 0
                  THEN LET step == vm.s[ra + 2].v
                           idx  == intop(ForLoopIndex(vm, ra) + step)
                       IN  vm' = [vm EXCEPT !.s[ra + 1] = TInt(l_castU2S(count - 1)),
                                            !.s[ra] = TInt(idx),
                                            !.s[ra + 3] = TInt(idx),
                                            !.hist = Append(@, TInt(idx)),
                                            !.vpc = GotoLabel(i, vm.vpc, JumpBackFmt)]
                  ELSE vm' = [vm EXCEPT !.vpc = @ + 1]
    /\ UNCHANGED generator

RunNext ==
    \/ Exec_Move
    \/ Exec_LoadI
    \/ Exec_Return
    \/ Exec_Return0
    \/ Exec_Return1
    \/ Exec_ForPrep
    \/ Exec_ForLoop

RunSpec == RunInit /\ [][RunNext]_vars

(* a block that can execute does execute: the native function runs on its    *)
(* thread until it returns or raises an error                                *)
RunFair == RunSpec /\ WF_vars(RunNext)

-----------------------------------------------------------------------------
(* the line a native function's header comment gives, 0 for the main function *)
HeaderLine(out, i) == IF out[i - 2][1] = "// main function" THEN 0 ELSE out[i - 2][4][1]

(* the opcodes of the blocks of a native function, in order *)
BlockOps(ftext) ==
    LET words == Items(ftext, WordFmt)
    IN  [j \in 1..Len(words) |-> words[j][2]]

OpsOf(p) == [j \in 1..Len(p.code) |-> p.code[j].op]

(* C1: after print_functions the table LUA_AOT_FUNCTIONS holds one entry per *)
(* prototype of the tree, the k-th entry (from 0) names the native function  *)
(* emitted for the k-th prototype in pre-order, and the entries are followed *)
(* by exactly one NULL.                                                      *)
C1_TableMatchesPreOrder ==
    pc = "print_source_code" =>
        LET pre   == PreOrder(image)
            heads == Positions(output, HdrFmt)
            texts == FunctionTexts(output)
            table == CHOOSE i \in Where(output, TableFmt) : TRUE
            n     == Len(pre)
        IN  /\ Cardinality(Where(output, TableFmt)) = 1
            /\ Len(heads) = n
            \* the k-th native function is the one emitted for the k-th prototype
            /\ \A k \in 0..(n - 1) :
                    /\ output[heads[k + 1]][3] = k
                    /\ HeaderLine(output, heads[k + 1]) = pre[k + 1].linedefined
                    /\ BlockOps(texts[k + 1]) = OpsOf(pre[k + 1])
            \* the table: n entries naming functions 0 .. n-1 in order, NULL, the end
            /\ \A k \in 0..(n - 1) : output[table + 1 + k] = P(EntryFmt, "", k, <<>>)
            /\ output[table + 1 + n][1] = NullFmt
            /\ output[table + 2 + n][1] = EndFmt
            /\ Cardinality(Where(output, NullFmt)) = 1
            /\ Cardinality(Where(output, EntryFmt)) = n

C1_Witness ==
    /\ pc = "print_source_code"
    /\ image = TreeOf(<< <<<<>>>>, <<>> >>, 0)
    /\ Len(Items(output, EntryFmt)) = 4

-----------------------------------------------------------------------------
(* C2: two runs of the generator on the same arguments and the same input    *)
(* write the same output.                                                    *)
C2_Deterministic ==
    (run = 2 /\ Succeeded) => output = prev_output

-----------------------------------------------------------------------------
(* the targets of the gotos of one instruction's text *)
Gotos(text) ==
    {text[i][3] : i \in Where(text, JumpBackFmt) \cup Where(text, SkipLoopFmt)}

-----------------------------------------------------------------------------
(* C4: for a numeric loop as the compiler lays it out (FORPREP at p with     *)
(* magnitude b, its FORLOOP at p+b+1 with magnitude b+1) the FORLOOP block   *)
(* jumps back to p+1, the position after the FORPREP, and the FORPREP block  *)
(* skips to the position after the FORLOOP; a unit of one function yields    *)
(* one native function and one table entry.                                 *)
C4_LoopSelfConsistent ==
    pc = "print_source_code" =>
        LET pre   == PreOrder(image)
            texts == FunctionTexts(output)
        IN  /\ \A k \in 1..Len(texts) :
                 LET its  == InstructionTexts(texts[k])
                     code == pre[k].code
                 IN  \A p \in 0..(Len(code) - 1) :
                       LET b == code[p + 1].bx
                       IN  ( /\ code[p + 1].op = "FORPREP"
                             /\ p + b + 1 < Len(code)
                             /\ code[p + b + 2].op = "FORLOOP"
                             /\ code[p + b + 2].bx = b + 1 )
                           => /\ Arg(its[p + 1], LabelFmt) = p
                              /\ Arg(its[p + b + 2], LabelFmt) = p + b + 1
                              /\ Gotos(its[p + b + 2]) = {p + 1}
                              /\ Gotos(its[p + 1]) = {p + b + 2}
            /\ image.p = <<>> =>
                 /\ Len(texts) = 1
                 /\ Items(output, EntryFmt) = <<P(EntryFmt, "", 0, <<>>)>>

(* the unit "for i = 1, 5 do end": FORPREP at 4, FORLOOP at 5, RETURN at 6 *)
C4_Witness ==
    /\ pc = "print_source_code"
    /\ image \in ImgForLoop
    /\ LET its == InstructionTexts(FunctionTexts(output)[1])
       IN  Gotos(its[6]) = {5} /\ Gotos(its[5]) = {6}
    /\ Len(Items(output, EntryFmt)) = 1

-----------------------------------------------------------------------------
(* C5: in every emitted function, every goto written for a FORLOOP or        *)
(* FORPREP targets a position t with 0 <= t < sizecode of that prototype,    *)
(* whose label is defined in the same native function (the prototypes being  *)
(* those of compiled chunks).                                                *)
C5_GotoTargetsInRange ==
    pc = "print_source_code" =>
        LET pre   == PreOrder(image)
            texts == FunctionTexts(output)
        IN  \A k \in 1..Len(texts) :
              LET labels == {texts[k][i][3] : i \in Where(texts[k], LabelFmt)}
              IN  \A t \in Gotos(texts[k]) :
                    /\ 0 <= t
                    /\ t < Len(pre[k].code)
                    /\ t \in labels

(* a loop nested in a loop: four skips, four jumps back *)
C5_Witness ==
    /\ pc = "print_source_code"
    /\ Len(Items(output, SkipLoopFmt)) = 4
    /\ Len(Items(output, JumpBackFmt)) = 4
    /\ Cardinality(Gotos(FunctionTexts(output)[1])) = 4

-----------------------------------------------------------------------------
(* the final component of a path, and whether it is a name (without '.')    *)
(* followed by ".c"                                                          *)
FinalComponent(path) ==
    IF \E i \in 1..Len(path) : path[i] = CH_SLASH
    THEN SubSeq(path, 1 + (CHOOSE i \in 1..Len(path) :
                             /\ path[i] = CH_SLASH
                             /\ \A j \in (i + 1)..Len(path) : path[j] # CH_SLASH),
                Len(path))
    ELSE path

IsNameDotC(comp) ==
    /\ Len(comp) >= 2
    /\ comp[Len(comp) - 1] = CH_DOT
    /\ comp[Len(comp)] = CH_c
    /\ \A i \in 1..(Len(comp) - 2) : comp[i] # CH_DOT

(* C6: with exactly two arguments, an output path whose final component is  *)
(* not a name followed by ".c" ends the run with a fatal message and exit    *)
(* code 1.                                                                   *)
C6_BadExtensionIsFatal ==
    (Len(argv) = 3 /\ ~IsNameDotC(FinalComponent(argv[3])) /\ pc # "main")
        => (pc = "exited" /\ exit_code = 1 /\ stderr # <<>>)

-----------------------------------------------------------------------------
(* the native code of a block: what lies between its declarations and its    *)
(* closing brace                                                             *)
BodyOf(text) ==
    LET a == CHOOSE i \in Where(text, "    StkId ra = RA(i);") : TRUE
        z == CHOOSE i \in Where(text, "  }") : TRUE
    IN  SubSeq(text, a + 1, z - 1)

(* C7: an instruction whose opcode has no case in create_function's switch   *)
(* does not stop the generation: its labeled block is emitted with an        *)
(* always-failing assertion as its body, and every later block, every later  *)
(* function and the function table are emitted as usual.                     *)
C7_UnsupportedOpcodeDeferred ==
    /\ (pc = "exited" /\ exit_code # 0 /\ stack # <<>>)
          => Last(stack).p.code[ipc + 1].op \in DedicatedOps
    /\ pc = "print_source_code" =>
          LET pre   == PreOrder(image)
              texts == FunctionTexts(output)
          IN  /\ Len(texts) = Len(pre)
              /\ \A k \in 1..Len(pre) :
                   LET its  == InstructionTexts(texts[k])
                       code == pre[k].code
                   IN  /\ Len(its) = Len(code)
                       /\ \A j \in 1..Len(code) :
                            /\ Arg(its[j], LabelFmt) = j - 1
                            /\ Cardinality(Where(its[j], "  }")) = 1
                            /\ IF code[j].op \in DedicatedOps
                               THEN BodyOf(its[j]) # <<>> /\ Where(its[j], TodoFmt) = {}
                               ELSE BodyOf(its[j]) = <<P(TodoFmt, "", 0, <<>>)>>
              /\ Len(Items(output, EntryFmt)) = Len(pre)
              /\ Len(Items(output, NullFmt)) = 1

(* an unsupported ADD in the main function, followed by a CLOSURE, a RETURN  *)
(* and a second function that holds an unsupported ADD of its own            *)
C7_Witness ==
    /\ pc = "print_source_code"
    /\ image \in ImgMixed
    /\ Len(Items(output, TodoFmt)) = 2
    /\ Len(Items(output, HdrFmt)) = 2
    /\ Len(Items(output, EntryFmt)) = 2

-----------------------------------------------------------------------------
(* C8: on a successful run the output consists, in this order and each once, *)
(* of the header inclusion, the native functions of all prototypes, the      *)
(* function table, the source array, the macro naming luaopen_<module name>  *)
(* and the footer inclusion, which is the last thing written.                *)
C8_OutputOrder ==
    Succeeded =>
        LET h == Positions(output, HeaderInc)
            f == Positions(output, HdrFmt)
            l == Positions(output, LabelFmt)
            t == Positions(output, TableFmt)
            e == Positions(output, EntryFmt)
            a == Positions(output, ArrayFmt)
            b == Positions(output, "%3d")
            d == Positions(output, LuaopenFmt)
            z == Positions(output, FooterInc)
            comp == FinalComponent(argv[3])
        IN  /\ Len(h) = 1 /\ Len(t) = 1 /\ Len(a) = 1 /\ Len(d) = 1 /\ Len(z) = 1
            /\ Len(f) = Len(PreOrder(image))
            /\ h[1] = 1
            /\ h[1] < f[1]
            /\ f[Len(f)] < t[1] /\ l[Len(l)] < t[1]
            /\ t[1] < e[1] /\ e[Len(e)] < a[1]
            /\ a[1] < b[1] /\ b[Len(b)] < d[1]
            /\ d[1] < z[1]
            /\ z[1] = Len(output)
            /\ output[d[1]][4] = SubSeq(comp, 1, Len(comp) - 2)

C8_Witness ==
    /\ Succeeded
    /\ Len(Items(output, HdrFmt)) = 4
    /\ Len(Items(output, "%3d")) = 2
    /\ Last(output)[1] = FooterInc

-----------------------------------------------------------------------------
(* Reading the source array back as a C initializer list: the elements are   *)
(* separated by commas, white space is skipped, an element is a decimal      *)
(* constant (an octal one when it starts with 0) stored in a char.           *)

IsSpace(c) == c = CH_SPACE \/ c = CH_NEWLINE
IsDigit(c) == c >= CH_ZERO /\ c <= CH_ZERO + 9

RECURSIVE Numeral(_, _)
Numeral(digits, base) ==
    IF digits = <<>> THEN 0
    ELSE Numeral(SubSeq(digits, 1, Len(digits) - 1), base) * base
         + (Last(digits) - CH_ZERO)

(* the value of one element, -1 when it is not an integer constant *)
ElementValue(tok) ==
    LET d == SelectSeq(tok, LAMBDA c : ~IsSpace(c))
        inner == {i \in 1..Len(tok) : ~IsSpace(tok[i])}
    IN  IF /\ d # <<>>
           /\ \A c \in {d[i] : i \in 1..Len(d)} : IsDigit(c)
           /\ \A i \in inner, j \in inner : \A m \in i..j : m \in inner
        THEN IF Len(d) > 1 /\ d[1] = CH_ZERO
             THEN IF \E i \in 1..Len(d) : d[i] > CH_ZERO + 7 THEN 0 - 1
                  ELSE Numeral(d, 8) % 256
             ELSE Numeral(d, 10) % 256
        ELSE 0 - 1

(* the characters written between the array's opening and closing lines *)
ArrayText(out) ==
    LET a == CHOOSE i \in Where(out, ArrayFmt) : TRUE
        z == CHOOSE i \in Where(out, EndFmt) : i > a
    IN  Flatten([i \in 1..(z - a - 1) |-> out[a + i][4]])

ArrayElements(out) ==
    LET text   == ArrayText(out)
        commas == SelectSeq([i \in 1..Len(text) |-> i], LAMBDA i : text[i] = CH_COMMA)
        n      == Len(commas) + 1
    IN  [j \in 1..n |->
            ElementValue(SubSeq(text,
                                IF j = 1 THEN 1 ELSE commas[j - 1] + 1,
                                IF j = n THEN Len(text) ELSE commas[j] - 1))]

(* C9: the elements of LUA_AOT_MODULE_SOURCE_CODE are the bytes of the input *)
(* file in order, followed by one terminating 0: n+1 elements.               *)
C9_SourceArrayVerbatim ==
    pc = "footer" => ArrayElements(output) = file \o <<0>>

(* a file longer than one row of the array, holding the bytes 0 and 255 *)
C9_Witness ==
    /\ pc = "footer"
    /\ Len(file) > 16
    /\ \E i \in 1..Len(file) : file[i] = 0
    /\ \E i \in 1..Len(file) : file[i] = 255
    /\ Len(ArrayElements(output)) = Len(file) + 1

-----------------------------------------------------------------------------
(* Reading a string literal back by the grammar of C, the language of the    *)
(* generated file: a backslash is followed by a simple escape character or   *)
(* by one to three octal digits.  -1 marks what is not part of a literal.    *)

IsOctal(c) == c >= CH_ZERO /\ c <= CH_ZERO + 7

SimpleEscape(c) ==
    CASE c = 97  -> 7    [] c = 98  -> 8    [] c = 102 -> 12   [] c = 110 -> 10
      [] c = 114 -> 13   [] c = 116 -> 9    [] c = 118 -> 11
      [] c = CH_BACKSLASH -> CH_BACKSLASH   [] c = CH_QUOTE -> CH_QUOTE
      [] c = 39  -> 39   [] c = 63  -> 63
      [] OTHER -> 0 - 1

RECURSIVE ParseC(_, _)
ParseC(body, i) ==
    IF i > Len(body) THEN <<>>
    ELSE IF body[i] = CH_QUOTE \/ body[i] = CH_NEWLINE THEN <<0 - 1>>
    ELSE IF body[i] # CH_BACKSLASH THEN <<body[i]>> \o ParseC(body, i + 1)
    ELSE IF i = Len(body) THEN <<0 - 1>>
    ELSE IF IsOctal(body[i + 1])
         THEN LET n == IF i + 2 <= Len(body) /\ IsOctal(body[i + 2])
                       THEN (IF i + 3 <= Len(body) /\ IsOctal(body[i + 3]) THEN 3 ELSE 2)
                       ELSE 1
              IN  <<Numeral(SubSeq(body, i + 1, i + n), 8) % 256>> \o ParseC(body, i + 1 + n)
         ELSE <<SimpleEscape(body[i + 1])>> \o ParseC(body, i + 2)

(* C10: the literal PrintString renders for a string constant is a quoted    *)
(* text of printable characters in which quote, backslash and non-printable  *)
(* bytes appear only escaped, and parsing it by the target language's        *)
(* literal grammar yields the original bytes.                                *)
C10_StringLiteralRoundTrip ==
    (/\ pc = "print_source_code"
     /\ image.k # <<>>
     /\ image.k[1].tt = "string"
     /\ Where(output, "PrintString") # {})
        => LET lit  == Items(output, "PrintString")[1][4]
               body == SubSeq(lit, 2, Len(lit) - 1)
           IN  /\ Len(lit) >= 2
               /\ lit[1] = CH_QUOTE
               /\ Last(lit) = CH_QUOTE
               /\ \A i \in 1..Len(lit) : isprint(lit[i])
               /\ ParseC(body, 1) = image.k[1].s

-----------------------------------------------------------------------------
(* the labels LUA_AOT_NEXT_JUMP is defined as in one instruction's text: a   *)
(* label is either that of a position, <<"label", n>>, or the name written   *)
(* literally                                                                 *)
NextJump(text) == {<<"label_todo">> : i \in Where(text, TodoJumpFmt)}

(* C11: for every position whose next position exists and holds a direct     *)
(* jump, LUA_AOT_NEXT_JUMP in effect for the block designates the label of   *)
(* that jump's target, position (pc+1)+1+sJ of the same function; for every  *)
(* other position the association is undefined.                              *)
C11_NextJumpDesignatesTarget ==
    pc = "print_source_code" =>
        LET pre   == PreOrder(image)
            texts == FunctionTexts(output)
        IN  \A k \in 1..Len(texts) :
              LET its  == InstructionTexts(texts[k])
                  code == pre[k].code
              IN  \A j \in 1..Len(its) :
                    /\ Cardinality(Where(its[j], UndefJumpFmt)) = 1
                    /\ IF j + 1 <= Len(code) /\ code[j + 1].op = "JMP"
                       THEN NextJump(its[j]) = {<<"label", (j - 1) + 1 + 1 + code[j + 1].sj>>}
                       ELSE NextJump(its[j]) = {}

-----------------------------------------------------------------------------
(* C12: for a prototype with n instructions create_function emits exactly n  *)
(* labeled blocks, label_0 .. label_(n-1), in ascending order, none skipped   *)
(* or duplicated, and right before the block of position pc LUA_AOT_PC is    *)
(* rebound to function_code + pc + 1, once.                                  *)
C12_BlocksAndInstructionPointer ==
    pc = "print_source_code" =>
        LET pre   == PreOrder(image)
            texts == FunctionTexts(output)
        IN  /\ Len(texts) = Len(pre)
            /\ \A k \in 1..Len(texts) :
                 LET its  == InstructionTexts(texts[k])
                     code == pre[k].code
                     labs == Items(texts[k], LabelFmt)
                 IN  /\ Len(labs) = Len(code)
                     /\ \A j \in 1..Len(labs) : labs[j][3] = j - 1
                     /\ Len(its) = Len(code)
                     /\ \A j \in 1..Len(its) :
                          LET l == Positions(its[j], LabelFmt)
                              d == Positions(its[j], PcFmt)
                              u == Positions(its[j], UndefPcFmt)
                          IN  /\ Len(l) = 1 /\ Len(d) = 1 /\ Len(u) = 1
                              /\ its[j][l[1]][3] = j - 1
                              /\ its[j][d[1]][3] = (j - 1) + 1
                              /\ u[1] + 1 = d[1]
                              /\ d[1] < l[1]

(* a chunk of two functions, of five and three blocks *)
C12_Witness ==
    /\ pc = "print_source_code"
    /\ image \in ImgMixed
    /\ Len(Items(output, LabelFmt)) = 8
    /\ Len(Items(output, PcFmt)) = 8

-----------------------------------------------------------------------------
(* C16: for every FORLOOP and FORPREP instruction the "to N" of the          *)
(* annotation (N a 1-based instruction number) denotes the instruction the   *)
(* block's goto targets: N equals the goto's label index plus 1.             *)
C16_AnnotationMatchesGoto ==
    pc = "print_source_code" =>
        LET pre   == PreOrder(image)
            texts == FunctionTexts(output)
        IN  \A k \in 1..Len(texts) :
              LET its  == InstructionTexts(texts[k])
                  code == pre[k].code
              IN  \A j \in 1..Len(its) :
                    code[j].op \in {"FORLOOP", "FORPREP"} =>
                        /\ Gotos(its[j]) # {}
                        /\ \A t \in Gotos(its[j]) : Arg(its[j], ToFmt) = t + 1

-----------------------------------------------------------------------------
(* C17: every constant-pool read made while annotating an instruction uses   *)
(* an index within the prototype's constant pool, the read made for an       *)
(* EXTRAARG (index Ax) included, whatever instruction the EXTRAARG extends.  *)
C17_ConstantReadsInBounds ==
    (pc = "instr" /\ ipc < Len(Last(stack).p.code)) =>
        \A i \in CommentConstReads(Last(stack).p.code[ipc + 1]) :
            ConstInBounds(Last(stack).p, i)

-----------------------------------------------------------------------------
(* a function that only returns has returned *)
Returned == pc = "run" /\ Len(image.code) = 1 /\ vm.status = "returned"

Unwinds == {"luaD_poscall", "L->ci = ci->previous"}

(* C13: for each of RETURN, RETURN0 and RETURN1, when the instruction's flag *)
(* k is set the block closes the open upvalues (luaF_close from base) before *)
(* the call frame is unwound, and when k is clear it closes nothing.         *)
C13_ReturnClosesUpvalues ==
    Returned =>
        IF Current.k = 1
        THEN \E i \in 1..Len(vm.trace) :
                /\ vm.trace[i] = "luaF_close"
                /\ \A j \in 1..Len(vm.trace) : vm.trace[j] \in Unwinds => i < j
        ELSE \A i \in 1..Len(vm.trace) : vm.trace[i] # "luaF_close"

-----------------------------------------------------------------------------
(* C14: in the RETURN0 and RETURN1 blocks, with a hook active the frame is   *)
(* unwound only through luaD_poscall; with no hook the block pops the frame  *)
(* inline and, for a caller requesting r >= 0 results, leaves exactly r      *)
(* slots from base-1: for RETURN1 with r >= 1 the first holds the value of   *)
(* register ra and the others nil, for RETURN0 all are nil, and L->top ends  *)
(* at base-1+r.                                                              *)
C14_FastReturn ==
    (Returned /\ Current.op \in {"RETURN0", "RETURN1"}) =>
        IF vm.hookmask # 0
        THEN vm.trace = <<"luaD_poscall">>
        ELSE /\ vm.trace = <<"L->ci = ci->previous">>
             /\ vm.ci = "caller"
             /\ vm.nresults >= 0 =>
                  /\ vm.top = vm.base - 1 + vm.nresults
                  /\ \A j \in 0..(vm.nresults - 1) :
                       vm.s[vm.base - 1 + j] =
                          IF Current.op = "RETURN1" /\ j = 0
                          THEN VmEntry(0, 0).s[RA(Current)]
                          ELSE TNil
                  /\ \A j \in Slots :
                       (j < vm.base - 1 \/ j >= vm.base - 1 + vm.nresults)
                          => vm.s[j] = VmEntry(0, 0).s[j]

(* RETURN1 of register 1 to a caller that wants three results, no hook *)
C14_Witness ==
    /\ Returned
    /\ Current.op = "RETURN1" /\ Current.a = 1
    /\ vm.hookmask = 0
    /\ vm.nresults = MaxResults
    /\ vm.s[vm.base - 1] = VmEntry(0, 0).s[vm.base + 1]
    /\ vm.s[vm.base] = TNil

-----------------------------------------------------------------------------
(* the loop a function of LoopProgs runs: its initial value, limit and step, *)
(* the number of times its body is to run                                    *)
LoopRun == pc = "run" /\ Len(image.code) > 4
LoopInit == IF LoopRun THEN image.code[1].sbx ELSE 0
LoopLimit == IF LoopRun THEN image.code[2].sbx ELSE 0
LoopStep == IF LoopRun THEN image.code[3].sbx ELSE 0
LoopEnd == Len(image.code) - 2     \* the position of the FORLOOP
Abs(x) == IF x < 0 THEN 0 - x ELSE x
Trips ==
    IF LoopStep = 0 \/ (LoopStep > 0 /\ LoopInit > LoopLimit)
                    \/ (LoopStep < 0 /\ LoopInit < LoopLimit)
    THEN 0
    ELSE (Abs(LoopLimit - LoopInit) \div Abs(LoopStep)) + 1

C15_LoopInvariant ==
    (LoopRun /\ LoopStep # 0) =>
        /\ Len(vm.hist) <= Trips
        /\ \A j \in 1..Len(vm.hist) :
             /\ vm.hist[j] = TInt(LoopInit + (j - 1) * LoopStep)
             /\ LoopStep > 0 => vm.hist[j].v <= LoopLimit
             /\ LoopStep < 0 => vm.hist[j].v >= LoopLimit
        /\ (vm.hist # <<>> /\ vm.vpc <= LoopEnd) =>
             l_castS2U(vm.s[vm.base + 1].v) = Trips - Len(vm.hist)
        /\ vm.vpc > LoopEnd => Len(vm.hist) = Trips

(* C15: on the all-integer path of FORPREP/FORLOOP (IntBits-bit wraparound   *)
(* integers, step # 0) the trip count is computed once and kept in place of  *)
(* the limit, each step decrements it and the loop exits at zero: the body   *)
(* runs floor(|limit-init| / |step|) + 1 times (not at all when the loop is  *)
(* skipped) and the function then returns, the control variable being        *)
(* init + j*step at the start of the j-th run and never passing the limit,   *)
(* also at the extreme integers and whatever the body writes to the control  *)
(* variable.                                                                 *)
C15_IntegerLoop ==
    /\ []C15_LoopInvariant
    /\ (LoopRun /\ LoopStep # 0) ~> (vm.status = "returned" /\ Len(vm.hist) = Trips)

(* a descending loop from the maximum to the minimum integer by the minimum  *)
(* integer, whose body overwrites the control variable, has run twice        *)
C15_Witness ==
    /\ LoopRun
    /\ LoopInit = MaxInteger /\ LoopLimit = MinInteger /\ LoopStep = MinInteger
    /\ image.code[5] = iABC("MOVE", 3, 4, 0, 0)
    /\ vm.status = "returned"
    /\ Len(vm.hist) = 2

====
